---- MODULE Spec2Model ----
(***************************************************************************)
(* Model of clustering/src/clustering.c: the two distance metrics and the  *)
(* nearest-center assignment c_assign with its OpenMP parallel region.     *)
(*                                                                         *)
(* float values are modelled on a small grid: a finite value is an         *)
(* integer; distances carry FracBits binary fraction digits; INF, NINF and *)
(* NaN are the IEEE specials, with the IEEE rules for arithmetic and for   *)
(* the ordered comparison "<".                                             *)
(***************************************************************************)
EXTENDS Integers, Sequences, FiniteSets, TLC

(* ------------------------------ bounds -------------------------------- *)
MaxFrames == 2
MaxCenters == 2
MaxThreads == 2
FracBits == 4

(* ------------------------- program constants -------------------------- *)
\* FLT_MAX (line 96): the largest finite float of the modelled grid.
FLT_MAX == 1000000
\* schedule(static, 10) (line 94)
CHUNK == 10
\* return codes of c_assign (clustering.h; used at lines 62, 72, 75)
ASSIGN_SUCCESS == 0
ASSIGN_ERR_NO_MEMORY == 1
ASSIGN_ERR_INVALID_METRIC == 2

INF == FLT_MAX + 1
NINF == 0 - INF
NaN == FLT_MAX + 2
Scale == 2 ^ FracBits

\* widths of size_t (argmin, line 57) and npy_int32 (dtraj, line 53): the
\* 64 and 32 bits of the build scaled to 16 and 8, which fit TLC's integers
\* and keep the narrowing of line 105.
SizeBits == 16
Int32Bits == 8
SizeMod == 2 ^ SizeBits
Int32Mod == 2 ^ Int32Bits

NULL == "NULL"
Blocks == {"blkA", "blkB"}

(* --------------------------- float arithmetic ------------------------- *)
IsFinite(x) == x # NaN /\ x # INF /\ x # NINF

FNeg(x) == IF x = NaN THEN NaN ELSE IF x = INF THEN NINF
           ELSE IF x = NINF THEN INF ELSE 0 - x

FAdd(x, y) ==
    IF x = NaN \/ y = NaN THEN NaN
    ELSE IF (x = INF /\ y = NINF) \/ (x = NINF /\ y = INF) THEN NaN
    ELSE IF x = INF \/ y = INF THEN INF
    ELSE IF x = NINF \/ y = NINF THEN NINF
    ELSE x + y

FSub(x, y) == FAdd(x, FNeg(y))

FMul(x, y) ==
    IF x = NaN \/ y = NaN THEN NaN
    ELSE IF IsFinite(x) /\ IsFinite(y) THEN x * y
    ELSE IF x = 0 \/ y = 0 THEN NaN
    ELSE IF (x > 0) = (y > 0) THEN INF ELSE NINF

\* x / n for a positive count n
FDivN(x, n) == IF IsFinite(x) THEN x \div n ELSE x

\* the C comparison a < b on floats: false whenever an operand is NaN
FLess(a, b) == a # NaN /\ b # NaN /\ a < b

RECURSIVE ISqrtIn(_, _, _)
ISqrtIn(lo, hi, x) ==
    IF lo >= hi THEN lo
    ELSE LET mid == (lo + hi + 1) \div 2
         IN  IF mid * mid <= x THEN ISqrtIn(mid, hi, x) ELSE ISqrtIn(lo, mid - 1, x)

RECURSIVE RootBound(_, _)
\* a power of two whose square exceeds x
RootBound(h, x) == IF h * h > x THEN h ELSE RootBound(2 * h, x)

\* floor of the square root of a natural number
ISqrt(x) == ISqrtIn(0, RootBound(1, x), x)

\* sqrt() of the value x / s, narrowed to the float grid: the result carries
\* FracBits fraction digits (it is the root multiplied by Scale, rounded down)
FSqrt(x, s) ==
    IF x = NaN \/ x = NINF THEN NaN
    ELSE IF x = INF THEN INF
    ELSE IF x < 0 THEN NaN
    ELSE ISqrt((x * Scale * Scale) \div s)

RECURSIVE FSum(_, _)
\* f[1] + ... + f[n], accumulated left to right
FSum(f, n) == IF n = 0 THEN 0 ELSE FAdd(FSum(f, n - 1), f[n])

(* ------------------------------ metrics ------------------------------- *)
\* euclidean_distance, lines 27-37
euclidean_distance(a, b, n) ==
    FSqrt(FSum([i \in 1..n |-> FMul(FSub(a[i], b[i]), FSub(a[i], b[i]))], n), 1)

\* The geometry library (not part of this file). Coordinates are atom-major:
\* atom k of buffer x occupies x[3*(k-1)+1 .. 3*(k-1)+3].
Coord(x, k, ax) == x[3 * (k - 1) + ax]

\* inplace_center_and_trace_atom_major(buffer, &trace, 1, n_atoms): moves the
\* point set to its centroid and returns the trace of the centered set.
Centroid(x, n_atoms, ax) ==
    FDivN(FSum([k \in 1..n_atoms |-> Coord(x, k, ax)], n_atoms), n_atoms)

Centered(x, n_atoms) ==
    [idx \in 1..Len(x) |->
        IF idx <= 3 * n_atoms
        THEN FSub(x[idx], Centroid(x, n_atoms, ((idx - 1) % 3) + 1))
        ELSE x[idx]]

Trace(x, n_atoms) ==
    FSum([idx \in 1..(3 * n_atoms) |-> FMul(x[idx], x[idx])], 3 * n_atoms)

\* msd_atom_major(n, n, a, b, G_a, G_b, 0, NULL): the minimal mean squared
\* deviation of two centered point sets under rigid superposition,
\* (G_a + G_b - 2*lambda) / n, lambda the largest root of the key matrix of
\* the correlation matrix M = a^T b.  For at most two centered atoms M has
\* rank one and lambda is its Frobenius norm.  The result carries FracBits
\* fraction digits.
Corr(a, b, n_atoms, ax, ay) ==
    FSum([k \in 1..n_atoms |-> FMul(Coord(a, k, ax), Coord(b, k, ay))], n_atoms)

CorrNormSq(a, b, n_atoms) ==
    FSum([e \in 1..9 |->
            LET m == Corr(a, b, n_atoms, ((e - 1) \div 3) + 1, ((e - 1) % 3) + 1)
            IN  FMul(m, m)], 9)

msd_atom_major(n_atoms, a, b, G_a, G_b) ==
    LET lambda == FSqrt(CorrNormSq(a, b, n_atoms), 1)
    IN  FDivN(FSub(FAdd(FMul(G_a, Scale), FMul(G_b, Scale)), FMul(2, lambda)),
              n_atoms)

\* minRMSD_distance, lines 47-50, on the contents of the two scratch buffers
rmsd_of_buffers(buf_a, buf_b, n) ==
    LET ca == Centered(buf_a, n \div 3)
        cb == Centered(buf_b, n \div 3)
        msd == msd_atom_major(n \div 3, ca, cb,
                              Trace(ca, n \div 3), Trace(cb, n \div 3))
    IN  FSqrt(msd, Scale)

\* minRMSD_distance, lines 39-51, run with scratch buffers no one else uses
minRMSD_distance(a, b, n) == rmsd_of_buffers(a, b, n)

(* --------------------------- integer widths --------------------------- *)
\* conversion to size_t (argmin = -1, line 97)
ToSizeT(x) == x % SizeMod

\* conversion of a size_t to npy_int32 (dtraj[i] = argmin, line 105)
ToInt32(x) ==
    LET m == x % Int32Mod
    IN  IF m >= Int32Mod \div 2 THEN m - Int32Mod ELSE m

(* ------------------------------- inputs ------------------------------- *)
\* frames and centers of two atoms (dim = 6)
FramePool ==
    << <<0, 0, 0, 0, 0, 0>>,
       <<NaN, 0, 0, 0, 0, 0>>,
       <<4, 0, 0, 8, 0, 0>>,
       <<INF, 0, 0, 0, 0, 0>> >>

CenterPool ==
    << <<1, 0, 0, -1, 0, 0>>,
       <<-1, 0, 0, 1, 0, 0>>,
       <<5, 0, 0, 9, 0, 0>> >>

Metrics == {"euclidean", "minRMSD", "Euclidean", "cosine"}
Dims == {6}
Threads == 0..(MaxThreads - 1)

\* row i of an array whose rows cycle through a pool from row `first`
Rows(pool, first, n) ==
    [i \in 0..(n - 1) |-> pool[((first + i) % Len(pool)) + 1]]

UNSET == 0 - 1

(* ------------------------------- state -------------------------------- *)
VARIABLES
    chunk, centers, dtraj, metric, N_frames, N_centers, dim, n_threads,
    defect, dtraj_len,
    apc, centers_refs, py_res, pyerr,
    ret, buffer_a, buffer_b, distance,
    heap, scratch, users,
    nthreads_var, team,
    pc, tpc, ti, tj, mindist, argmin,
    nwrites, ncalls

\* dtraj[i], i < N_frames, is the memory c_assign addresses as dtraj[i]; the
\* array the caller passed has dtraj_len slots, so an index i >= dtraj_len
\* lies outside it.
params == <<metric, N_frames, N_centers, dim, n_threads, defect, dtraj_len>>
args == <<chunk, centers, params>>
caller == <<apc, centers_refs, py_res, pyerr>>
locals == <<ti, tj, mindist, argmin>>
vars == <<chunk, centers, dtraj, metric, N_frames, N_centers, dim, n_threads,
          defect, dtraj_len, apc, centers_refs, py_res, pyerr,
          ret, buffer_a, buffer_b, distance, heap, scratch, users,
          nthreads_var, team,
          pc, tpc, ti, tj, mindist, argmin, nwrites, ncalls>>

\* the ways one argument of assign can be malformed (lines 130-165); a zero
\* dim and an empty center set are values of dim and N_centers
Defects == {"none", "parse", "chunk_dtype", "chunk_layout", "chunk_ndim",
            "dtraj_dtype", "dtraj_layout", "dtraj_ndim",
            "centers_convert", "centers_dim"}

\* the lengths of the dtraj array passed with a batch of n frames
DtrajLengths(n) == {k \in {n - 1, n, n + 1} : k >= 0}

\* the state when assign is entered (line 115), before c_assign has run
Init ==
    /\ \/ \* batches of at most MaxFrames frames: one block of the schedule
          /\ metric \in Metrics
          /\ dim \in Dims
          /\ n_threads \in 1..MaxThreads
          /\ defect = "none"
          /\ N_frames \in 0..MaxFrames
          /\ N_centers \in 1..MaxCenters
          /\ dtraj_len \in DtrajLengths(N_frames)
          /\ \E first \in 0..(Len(FramePool) - 1) :
                 chunk = Rows(FramePool, IF N_frames = 0 THEN 0 ELSE first, N_frames)
          /\ \E first \in 0..(Len(CenterPool) - 1) :
                 centers = Rows(CenterPool, first, N_centers)
       \/ \* one batch of two blocks, so that a second thread gets frames
          /\ metric \in Metrics
          /\ dim \in Dims
          /\ n_threads \in 1..MaxThreads
          /\ defect = "none"
          /\ N_frames = CHUNK + 1
          /\ N_centers = 2
          /\ dtraj_len = N_frames
          /\ chunk = Rows(FramePool, 0, N_frames)
          /\ centers = Rows(CenterPool, 1, N_centers)
       \/ \* one frame and one center with a malformed argument
          /\ metric = "euclidean"
          /\ n_threads = 1
          /\ N_frames = 1
          /\ dtraj_len = 1
          /\ \/ defect \in Defects \ {"none"} /\ dim \in Dims /\ N_centers = 1
             \/ defect = "none" /\ dim = 0 /\ N_centers = 1
             \/ defect = "none" /\ dim \in Dims /\ N_centers = 0
          /\ chunk = [i \in 0..(N_frames - 1) |-> [k \in 1..dim |-> 0]]
          /\ centers = [j \in 0..(N_centers - 1) |-> [k \in 1..dim |-> 0]]
    /\ apc = "entry"
    /\ centers_refs = 0
    /\ py_res = "unset"
    /\ pyerr = "none"
    /\ users = [b \in Blocks |-> {}]
    /\ dtraj = [i \in 0..(N_frames - 1) |-> 0]
    /\ nwrites = [i \in 0..(N_frames - 1) |-> 0]
    /\ ncalls = 0
    /\ ret = UNSET
    /\ buffer_a = NULL
    /\ buffer_b = NULL
    /\ distance = "unset"
    /\ heap = [b \in Blocks |-> "unallocated"]
    /\ scratch = [b \in Blocks |-> << >>]
    /\ nthreads_var = MaxThreads
    /\ team = 0
    /\ pc = "start"
    /\ tpc = [t \in Threads |-> "idle"]
    /\ ti = [t \in Threads |-> 0]
    /\ tj = [t \in Threads |-> 0]
    /\ mindist = [t \in Threads |-> 0]
    /\ argmin = [t \in Threads |-> 0]

(* ----------------------- assign: the arguments ------------------------ *)
\* line 148: np_chunk->dimensions[0] != N_frames, where N_frames was read
\* from np_chunk->dimensions[0] at line 136
DtrajSizeDiffers(chunk_dim0, n) == chunk_dim0 # n

\* the first check of lines 130-165 that the arguments fail, "none" when
\* they pass them all; the length of np_dtraj is read by none of them
Rejected ==
    IF defect = "parse" THEN "parse"
    ELSE IF defect \in {"chunk_dtype", "chunk_layout", "chunk_ndim"} THEN defect
    ELSE IF dim = 0 THEN "dim_zero"
    ELSE IF defect \in {"dtraj_dtype", "dtraj_layout", "dtraj_ndim"} THEN defect
    ELSE IF DtrajSizeDiffers(N_frames, N_frames) THEN "dtraj_size"
    ELSE IF defect = "centers_convert" THEN "centers_convert"
    ELSE IF N_centers = 0 THEN "centers_empty"
    ELSE IF defect = "centers_dim" THEN "centers_dim"
    ELSE "none"

\* the checks that come after PyArray_ContiguousFromAny has returned the
\* new reference np_centers (line 155)
AfterConversion == {"centers_empty", "centers_dim", "none"}

\* lines 126-169: parse and import the arguments, goto error on the first
\* check that fails, otherwise go on to the call of c_assign
AssignImport ==
    /\ apc = "entry"
    /\ centers_refs' = IF Rejected \in AfterConversion THEN centers_refs + 1
                        ELSE centers_refs
    /\ IF Rejected = "none"
       THEN /\ apc' = "c_assign"
            /\ UNCHANGED <<py_res, pyerr>>
       ELSE /\ apc' = "returned"
            /\ py_res' = NULL
            /\ pyerr' = IF Rejected = "parse" THEN "TypeError" ELSE "ValueError"
    /\ UNCHANGED <<args, dtraj, ret, buffer_a, buffer_b, distance, heap,
                   scratch, users, nthreads_var, team, pc, tpc, locals,
                   nwrites, ncalls>>

\* lines 172-184: the switch on the value c_assign returned, and the return
AssignReturn ==
    /\ apc = "c_assign"
    /\ pc = "returned"
    /\ apc' = "returned"
    /\ IF ret = ASSIGN_ERR_INVALID_METRIC
       THEN py_res' = NULL /\ pyerr' = "ValueError"
       ELSE IF ret = ASSIGN_ERR_NO_MEMORY
       THEN py_res' = NULL /\ pyerr' = "MemoryError"
       ELSE py_res' = "None" /\ pyerr' = pyerr
    /\ UNCHANGED <<args, centers_refs, dtraj, ret, buffer_a, buffer_b, distance,
                   heap, scratch, users, nthreads_var, team, pc, tpc, locals,
                   nwrites, ncalls>>

(* ------------------------- c_assign: set-up --------------------------- *)
\* a comparison that ignores the case of the first letter
StrEqNoCase(a, b) == a = b \/ (a = "Euclidean" /\ b = "euclidean")

\* strcmp(a, b) == 0
StrEq(a, b) == a = b

\* a test that misses the failure of a single allocation
AllocFailedBoth(a, b) == a = NULL /\ b = NULL

\* the test of line 71
AllocFailed(a, b) == a = NULL \/ b = NULL

\* lines 61-77: pick the metric, allocate the scratch, or go to error
InitMetric ==
    /\ apc = "c_assign"
    /\ pc = "start"
    /\ IF StrEq(metric, "euclidean")
       THEN /\ distance' = "euclidean_distance"
            /\ ret' = ASSIGN_SUCCESS
            /\ pc' = "omp"
            /\ UNCHANGED <<buffer_a, buffer_b, heap>>
       ELSE IF StrEq(metric, "minRMSD")
       THEN /\ distance' = "minRMSD_distance"
            /\ \E okA \in BOOLEAN, okB \in BOOLEAN :
                 /\ buffer_a' = IF okA THEN "blkA" ELSE NULL
                 /\ buffer_b' = IF okB THEN "blkB" ELSE NULL
                 /\ heap' = [b \in Blocks |->
                               IF (b = "blkA" /\ okA) \/ (b = "blkB" /\ okB)
                               THEN "live" ELSE heap[b]]
            /\ IF AllocFailed(buffer_a', buffer_b')
               THEN ret' = ASSIGN_ERR_NO_MEMORY /\ pc' = "error"
               ELSE ret' = ASSIGN_SUCCESS /\ pc' = "omp"
       ELSE /\ ret' = ASSIGN_ERR_INVALID_METRIC
            /\ pc' = "error"
            /\ UNCHANGED <<distance, buffer_a, buffer_b, heap>>
    /\ UNCHANGED <<args, caller, dtraj, scratch, users, nthreads_var, team, tpc, locals,
                   nwrites, ncalls>>

(* --------------------- c_assign: parallel region ---------------------- *)
\* The team sizes the OpenMP runtime may give a region that asks for n
\* threads: n itself, or fewer when dynamic adjustment is on or the thread
\* limit is lower.
TeamSizes(n) == 1..n

\* lines 83-86: omp_set_num_threads(n_threads); #pragma omp parallel
EnterParallel ==
    /\ pc = "omp"
    /\ nthreads_var' = n_threads
    /\ \E size \in TeamSizes(n_threads) :
         /\ team' = size
         /\ tpc' = [t \in Threads |-> IF t < size THEN "assert" ELSE "idle"]
    /\ pc' = "parallel"
    /\ UNCHANGED <<args, caller, dtraj, ret, buffer_a, buffer_b, distance, heap,
                   scratch, users, locals, nwrites, ncalls>>

\* a schedule that hands every thread the rest of the loop
NextIterNoStride(i, size) == i + 1

\* schedule(static, 10), line 94: the chunks of CHUNK iterations go to the
\* threads of the team round-robin
FirstIter(t) == t * CHUNK
NextIter(i, size) ==
    IF (i + 1) % CHUNK # 0 THEN i + 1 ELSE i + 1 + (size - 1) * CHUNK

\* line 89: assert(omp_get_num_threads() == n_threads)
AssertTeam(t) ==
    /\ pc = "parallel"
    /\ tpc[t] = "assert"
    /\ IF team = n_threads
       THEN /\ tpc' = [tpc EXCEPT ![t] = "for"]
            /\ ti' = [ti EXCEPT ![t] = FirstIter(t)]
            /\ pc' = pc
       ELSE /\ pc' = "aborted"
            /\ UNCHANGED <<tpc, ti>>
    /\ UNCHANGED <<args, caller, dtraj, ret, buffer_a, buffer_b, distance, heap,
                   scratch, users, nthreads_var, team, tj, mindist, argmin,
                   nwrites, ncalls>>

\* a loop test that runs one frame too far
FrameCondOffByOne(i, n) == i <= n

\* the loop test of line 95
FrameCond(i, n) == i < n

\* lines 95-97: the next frame of this thread, or the end of its share
ForFrame(t) ==
    /\ pc = "parallel"
    /\ tpc[t] = "for"
    /\ IF FrameCond(ti[t], N_frames)
       THEN /\ mindist' = [mindist EXCEPT ![t] = FLT_MAX]
            /\ argmin' = [argmin EXCEPT ![t] = ToSizeT(0 - 1)]
            /\ tj' = [tj EXCEPT ![t] = 0]
            /\ tpc' = [tpc EXCEPT ![t] = "scan"]
       ELSE /\ tpc' = [tpc EXCEPT ![t] = "barrier"]
            /\ UNCHANGED <<mindist, argmin, tj>>
    /\ UNCHANGED <<args, caller, dtraj, ret, buffer_a, buffer_b, distance, heap,
                   scratch, users, nthreads_var, team, pc, ti, nwrites, ncalls>>

\* line 102: if(d < mindist) { mindist = d; argmin = j; }
Closer(d, m) == FLess(d, m)

Compare(t, d) ==
    /\ mindist' = [mindist EXCEPT ![t] = IF Closer(d, mindist[t]) THEN d ELSE @]
    /\ argmin' = [argmin EXCEPT ![t] = IF Closer(d, mindist[t]) THEN tj[t] ELSE @]
    /\ tj' = [tj EXCEPT ![t] = @ + 1]

\* lines 98-103 with distance = euclidean_distance
ScanEuclidean(t) ==
    /\ pc = "parallel"
    /\ tpc[t] = "scan"
    /\ distance = "euclidean_distance"
    /\ tj[t] < N_centers
    /\ Compare(t, euclidean_distance(chunk[ti[t]], centers[tj[t]], dim))
    /\ ncalls' = ncalls + 1
    /\ UNCHANGED <<args, caller, dtraj, ret, buffer_a, buffer_b, distance, heap,
                   scratch, users, nthreads_var, team, pc, tpc, ti, nwrites>>

\* memcpy through a scratch pointer, and the contents it points to
Store(mem, p, v) == IF p = NULL THEN mem ELSE [mem EXCEPT ![p] = v]
Load(mem, p, n) == IF p = NULL THEN [k \in 1..n |-> NaN] ELSE mem[p]

\* the threads that have written or read the block behind a scratch
\* pointer, after thread t has used both pointers
Used(u, t) == [b \in Blocks |-> IF b \in {buffer_a, buffer_b} THEN u[b] \cup {t}
                                                              ELSE u[b]]

\* an in-place centering that is handed the caller's arrays
CenteredArraysInputs == {"a", "b"}

\* lines 47-48: the arrays handed to inplace_center_and_trace_atom_major
CenteredArrays == {"buffer_a", "buffer_b"}

\* lines 98-99 and 44-45 with distance = minRMSD_distance: the two memcpy.
\* The threads of the team interleave between the copies of a call and its
\* computation on the scratch (Align); the scratch pair is the one pair of
\* lines 69-70, the same for every thread.
Copy(t) ==
    /\ pc = "parallel"
    /\ tpc[t] = "scan"
    /\ distance = "minRMSD_distance"
    /\ tj[t] < N_centers
    /\ scratch' = Store(Store(scratch, buffer_a, chunk[ti[t]]),
                        buffer_b, centers[tj[t]])
    /\ users' = Used(users, t)
    /\ tpc' = [tpc EXCEPT ![t] = "align"]
    /\ ncalls' = ncalls + 1
    /\ UNCHANGED <<args, caller, dtraj, ret, buffer_a, buffer_b, distance, heap,
                   nthreads_var, team, pc, locals, nwrites>>

\* lines 47-50 and 102
Align(t) ==
    /\ pc = "parallel"
    /\ tpc[t] = "align"
    /\ LET a == Load(scratch, buffer_a, dim)
           b == Load(scratch, buffer_b, dim)
           ca == IF "buffer_a" \in CenteredArrays THEN Centered(a, dim \div 3) ELSE a
           cb == IF "buffer_b" \in CenteredArrays THEN Centered(b, dim \div 3) ELSE b
       IN  /\ scratch' = Store(Store(scratch, buffer_a, ca), buffer_b, cb)
           /\ Compare(t, rmsd_of_buffers(a, b, dim))
    /\ chunk' = IF "a" \in CenteredArrays
                THEN [chunk EXCEPT ![ti[t]] = Centered(@, dim \div 3)] ELSE chunk
    /\ centers' = IF "b" \in CenteredArrays
                  THEN [centers EXCEPT ![tj[t]] = Centered(@, dim \div 3)] ELSE centers
    /\ users' = Used(users, t)
    /\ tpc' = [tpc EXCEPT ![t] = "scan"]
    /\ UNCHANGED <<params, caller, dtraj, ret, buffer_a, buffer_b, distance, heap,
                   nthreads_var, team, pc, ti, nwrites, ncalls>>

\* line 105: dtraj[i] = argmin; then ++i of line 95
WriteIndex(t) ==
    /\ pc = "parallel"
    /\ tpc[t] = "scan"
    /\ tj[t] >= N_centers
    /\ \/ /\ dtraj' = [dtraj EXCEPT ![ti[t]] = ToInt32(argmin[t])]
          /\ nwrites' = [nwrites EXCEPT ![ti[t]] = @ + 1]
          /\ ti' = [ti EXCEPT ![t] = NextIter(ti[t], team)]
          /\ tpc' = [tpc EXCEPT ![t] = "for"]
          /\ pc' = pc
       \/ \* a store past the end of the caller's array may also trap
          /\ ti[t] >= dtraj_len
          /\ pc' = "trapped"
          /\ UNCHANGED <<dtraj, nwrites, ti, tpc>>
    /\ UNCHANGED <<args, caller, ret, buffer_a, buffer_b, distance, heap,
                   scratch, users, nthreads_var, team, tj, mindist, argmin, ncalls>>

\* line 107: the end of the parallel region, reached by the whole team
Join ==
    /\ pc = "parallel"
    /\ \A t \in Threads : t < team => tpc[t] = "barrier"
    /\ pc' = "error"
    /\ UNCHANGED <<args, caller, dtraj, ret, buffer_a, buffer_b, distance, heap,
                   scratch, users, nthreads_var, team, tpc, locals, nwrites, ncalls>>

(* ------------------------- c_assign: clean-up ------------------------- *)
\* a clean-up that releases nothing
FreeNothing(h, p) == h

\* free(p)
Free(h, p) ==
    IF p = NULL THEN h
    ELSE [h EXCEPT ![p] = IF @ = "live" THEN "freed" ELSE "corrupt"]

\* lines 109-112
Cleanup ==
    /\ pc = "error"
    /\ heap' = Free(Free(heap, buffer_a), buffer_b)
    /\ pc' = "returned"
    /\ UNCHANGED <<args, caller, dtraj, ret, buffer_a, buffer_b, distance, scratch, users,
                   nthreads_var, team, tpc, locals, nwrites, ncalls>>

Worker(t) ==
    \/ AssertTeam(t)
    \/ ForFrame(t)
    \/ ScanEuclidean(t)
    \/ Copy(t)
    \/ Align(t)
    \/ WriteIndex(t)

Next ==
    \/ AssignImport
    \/ AssignReturn
    \/ InitMetric
    \/ EnterParallel
    \/ \E t \in Threads : Worker(t)
    \/ Join
    \/ Cleanup

Spec == Init /\ [][Next]_vars

(* ------------------------------ properties ---------------------------- *)
Frames == 0..(N_frames - 1)
Centers == 0..(N_centers - 1)
Returned == pc = "returned"
Succeeded == Returned /\ ret = ASSIGN_SUCCESS
Recognized == metric \in {"euclidean", "minRMSD"}
\* a scratch allocation of line 69 or 70 returned NULL
AllocFailure == distance = "minRMSD_distance" /\ (buffer_a = NULL \/ buffer_b = NULL)
OutputUntouched == \A i \in Frames : nwrites[i] = 0 /\ dtraj[i] = 0
NoScratch == buffer_a = NULL /\ buffer_b = NULL
                /\ \A b \in Blocks : heap[b] = "unallocated"

\* the distance of frame i to center j under the selected metric (line 99),
\* computed on scratch no other thread touches
Dist(i, j) ==
    IF distance = "euclidean_distance"
    THEN euclidean_distance(chunk[i], centers[j], dim)
    ELSE minRMSD_distance(chunk[i], centers[j], dim)

RECURSIVE SerialScan(_, _, _, _)
\* lines 96-104 for frame i, run by a single worker from center j on
SerialScan(i, j, m, a) ==
    IF j >= N_centers THEN a
    ELSE IF Closer(Dist(i, j), m) THEN SerialScan(i, j + 1, Dist(i, j), j)
    ELSE SerialScan(i, j + 1, m, a)

\* the output of the loop of lines 95-106 run by one worker
SerialOutput == [i \in Frames |-> ToInt32(SerialScan(i, 0, FLT_MAX, ToSizeT(0 - 1)))]

\* the IEEE comparison a <= b
FLessEq(a, b) == a # NaN /\ b # NaN /\ a <= b
\* the centers at the minimal distance from frame i
Nearest(i) == {j \in Centers : \A k \in Centers : FLessEq(Dist(i, j), Dist(i, k))}
Lowest(S) == CHOOSE j \in S : \A k \in S : j <= k

\* C1: after a successful call every output slot holds an index in
\* [0, N_centers), whatever distances the metric returned.
C1_RangeInvariant ==
    Succeeded => \A i \in Frames : dtraj[i] \in Centers

\* C2: after a successful call output[i] names a center and no center is
\* strictly closer to frame i than that one.
C2_NearestCenter ==
    Succeeded =>
        \A i \in Frames :
            /\ dtraj[i] \in Centers
            /\ \A j \in Centers : ~FLess(Dist(i, j), Dist(i, dtraj[i]))

\* C3: when two or more centers are at exactly the same minimal distance
\* from frame i, the lowest of their indices is written to output[i].
C3_TieBreak ==
    Succeeded =>
        \A i \in Frames :
            Cardinality(Nearest(i)) >= 2 => dtraj[i] = Lowest(Nearest(i))

\* C4: for fixed frames, centers and metric the output of a successful call
\* is the output of the one-worker run, for every team and interleaving.
C4_SerialEquivalence ==
    Succeeded => dtraj = SerialOutput

\* C5: a metric name other than exactly "euclidean" or "minRMSD" yields
\* InvalidMetric with no scratch allocated, no parallel region started and
\* no output slot written; the two exact names never yield InvalidMetric.
C5_InvalidMetric ==
    /\ ~Recognized =>
          /\ pc \in {"start", "error", "returned"}
          /\ pc # "start" => ret = ASSIGN_ERR_INVALID_METRIC
          /\ NoScratch
          /\ team = 0
          /\ ncalls = 0
          /\ OutputUntouched
    /\ Recognized => ret # ASSIGN_ERR_INVALID_METRIC

C5_Witness ==
    /\ Returned
    /\ metric = "Euclidean"
    /\ ret = ASSIGN_ERR_INVALID_METRIC
    /\ N_frames > 0

\* C6: under "minRMSD" a failed scratch allocation yields OutOfMemory before
\* any frame is processed, with the output unchanged and the scratch that
\* was allocated released; under "euclidean" no scratch is allocated and
\* OutOfMemory is never returned.
C6_OutOfMemory ==
    /\ AllocFailure =>
          /\ pc \in {"error", "returned"}
          /\ ret = ASSIGN_ERR_NO_MEMORY
          /\ team = 0
          /\ ncalls = 0
          /\ OutputUntouched
          /\ Returned => \A b \in Blocks : heap[b] \in {"unallocated", "freed"}
    /\ ret = ASSIGN_ERR_NO_MEMORY => metric = "minRMSD" /\ AllocFailure
    /\ metric = "euclidean" => NoScratch

C6_Witness ==
    /\ Returned
    /\ metric = "minRMSD"
    /\ ret = ASSIGN_ERR_NO_MEMORY
    /\ buffer_a = NULL
    /\ buffer_b = "blkB"
    /\ heap["blkB"] = "freed"
    /\ N_frames > 0

\* C7: once the metric is resolved and the scratch allocated, the call goes
\* on until it returns success with every output slot written, and it
\* returns an error only after one of the two set-up failures.
C7_ReturnsSuccess ==
    /\ (pc # "start" /\ Recognized /\ ~AllocFailure) =>
          \/ ENABLED Next
          \/ Succeeded /\ \A i \in Frames : nwrites[i] >= 1
    /\ (Returned /\ ret # ASSIGN_SUCCESS) => (~Recognized \/ AllocFailure)

\* C8: the parallel region runs with exactly n_threads workers, so the
\* assertion of line 89 never fails.
C8_ExactTeam ==
    /\ pc = "parallel" => team = n_threads
    /\ pc # "aborted"

\* C9: with a single center a successful call leaves 0 in every output
\* slot, whatever the frames hold.
C9_SingleCenter ==
    (Succeeded /\ N_centers = 1) => \A i \in Frames : dtraj[i] = 0

\* C10 as stated: with no frames and a recognized metric the call returns
\* success, never calls the distance function and writes no output slot.
C10_EmptyBatch ==
    (N_frames = 0 /\ Recognized) =>
        /\ ncalls = 0
        /\ \A t \in Threads : tpc[t] \notin {"scan", "align"}
        /\ dtraj = << >>
        /\ Returned => ret = ASSIGN_SUCCESS

\* C10 amended: with no frames and a recognized metric the call never calls
\* the distance function and writes no output slot, and it returns success
\* unless a scratch allocation of "minRMSD" failed, when it returns
\* OutOfMemory.
C10_EmptyBatchAmended ==
    (N_frames = 0 /\ Recognized) =>
        /\ ncalls = 0
        /\ \A t \in Threads : tpc[t] \notin {"scan", "align"}
        /\ dtraj = << >>
        /\ Returned =>
              IF AllocFailure THEN ret = ASSIGN_ERR_NO_MEMORY
              ELSE ret = ASSIGN_SUCCESS

C10_Witness ==
    /\ Returned
    /\ N_frames = 0
    /\ metric = "minRMSD"
    /\ team = 2
    /\ ret = ASSIGN_SUCCESS

\* the threads of the team that hold a frame index inside the loop body
InLoop == {t \in Threads : t < team /\ tpc[t] \in {"scan", "align"}}
\* the parallel region has been joined (line 107)
Joined == pc \in {"error", "returned"} /\ team > 0

\* C11: assign rejects a dtraj whose length differs from the number of
\* frames with a ValueError and without calling c_assign, so c_assign only
\* runs with an output array of exactly N_frames slots.
C11_DtrajLength ==
    /\ apc = "c_assign" => dtraj_len = N_frames
    /\ (apc = "returned" /\ dtraj_len # N_frames) =>
          pc = "start" /\ pyerr = "ValueError"

\* C12: under "minRMSD" no scratch block is written or read by two
\* different threads, and between the copies of a thread and its deviation
\* computation the scratch holds the frame and the center it copied.
C12_PrivateScratch ==
    /\ \A b \in Blocks : Cardinality(users[b]) <= 1
    /\ \A t \in Threads :
          (pc = "parallel" /\ tpc[t] = "align") =>
              /\ Load(scratch, buffer_a, dim) = chunk[ti[t]]
              /\ Load(scratch, buffer_b, dim) = centers[tj[t]]

\* C13: no output slot is written more than once, two threads never hold
\* the same frame index, and once the region is joined every slot has been
\* written exactly once.
C13_WrittenOnce ==
    /\ \A i \in Frames : nwrites[i] <= 1
    /\ \A t \in InLoop : \A u \in InLoop : t # u => ti[t] # ti[u]
    /\ \A t \in InLoop : ti[t] \in Frames /\ nwrites[ti[t]] = 0
    /\ Joined => \A i \in Frames : nwrites[i] = 1

C13_Witness ==
    /\ Succeeded
    /\ team = 2
    /\ N_frames = CHUNK + 1
    /\ \A i \in Frames : nwrites[i] = 1

\* C14: scratch is allocated only before the parallel region, it stays
\* allocated while the region runs, a block is never freed twice, and at the
\* return of every exit path each block that was allocated has been freed.
C14_ScratchLifecycle ==
    /\ \A b \in Blocks : heap[b] # "corrupt"
    /\ pc = "start" => \A b \in Blocks : heap[b] = "unallocated"
    /\ pc \in {"omp", "parallel"} =>
          /\ \A b \in Blocks : heap[b] = "live" <=> b \in {buffer_a, buffer_b}
          /\ \A b \in Blocks : heap[b] # "freed"
          /\ distance = "minRMSD_distance" => buffer_a # NULL /\ buffer_b # NULL
          /\ distance = "euclidean_distance" => NoScratch
    /\ \A b \in Blocks : users[b] # {} => heap[b] # "unallocated"
    /\ Returned => \A b \in Blocks : heap[b] \in {"unallocated", "freed"}
    /\ Returned => \A b \in Blocks : heap[b] = "freed" <=> b \in {buffer_a, buffer_b}

C14_Witness ==
    /\ Succeeded
    /\ metric = "minRMSD"
    /\ team = 2
    /\ ncalls > 0
    /\ \A b \in Blocks : heap[b] = "freed"

\* C15: when c_assign has returned, the process-wide number of threads for
\* parallel regions has the value it had before the call.
C15_NoStateLeft ==
    Returned => nthreads_var = MaxThreads

\* C16: no step of c_assign or of a metric changes the frames or the
\* centers.
C16_InputsUnchanged ==
    [][chunk' = chunk /\ centers' = centers]_vars

\* a "minRMSD" call has returned with a centered frame in the scratch that
\* differs from the frame it was copied from
C16_Witness ==
    /\ Succeeded
    /\ metric = "minRMSD"
    /\ ncalls > 0
    /\ \E i \in Frames :
          /\ scratch[buffer_a] = Centered(chunk[i], dim \div 3)
          /\ scratch[buffer_a] # chunk[i]

\* C17: when assign has returned, on whichever path, it holds no reference
\* to the converted centers array.
C17_CentersReleased ==
    apc = "returned" => centers_refs = 0

====
